---- MODULE Spec2Model ----
(***************************************************************************)
(* Payroll deductions (INSS, IRRF) and the DRE of folha_v7_12_atualizado.py *)
(*                                                                         *)
(* Units.  Every amount of money is an integer number of cents: the forms  *)
(* of the program enter amounts with two decimals.  Every rate is an       *)
(* integer number of thousandths (0.075 is 75, 12.0 % is 120).  A product  *)
(* amount * rate is therefore in thousandths of a cent, and round(x, 2)    *)
(* takes thousandths of a cent to cents.                                   *)
(*                                                                         *)
(* Rounding.  The program computes in binary floating point.  A product    *)
(* that lies exactly on a decimal half cent has no exact binary value, and *)
(* round(x, 2) then gives the lower or the upper cent depending on the     *)
(* representation error of that product.  Round2 takes the direction as    *)
(* the parameter up, and every action chooses it freely: away from a       *)
(* decimal half cent, up has no effect.                                    *)
(***************************************************************************)
EXTENDS Integers, Sequences, FiniteSets

VARIABLES
    emp,          \* the employee row handed to generate_holerite_pdf
    holerite,     \* what generate_holerite_pdf computed from emp, or NoResult
    irrf_call,    \* the arguments and the result of a direct call of calc_irrf
    ir_table,     \* the band table calc_irrf iterates over
    employees,    \* table employees
    sales,        \* table sales
    costs,        \* table costs
    CBS_RATE,     \* the sidebar's CBS rate, thousandths
    IBS_RATE,     \* the sidebar's IBS rate, thousandths
    dre_dict,     \* the DRE computed on the last render of the DRE tab, or NoResult
    pay_sel,      \* the payroll tab's selectbox: the id of an employee, 0 before there is one
    last_holerite \* st.session_state['last_holerite']: a payslip, or NoResult

vars == <<emp, holerite, irrf_call, ir_table, employees, sales, costs,
          CBS_RATE, IBS_RATE, dre_dict, pay_sel, last_holerite>>

calcVars == <<emp, holerite, irrf_call, ir_table>>
appVars == <<employees, sales, costs, CBS_RATE, IBS_RATE, dre_dict, pay_sel, last_holerite>>

NoResult == [none |-> TRUE]

Max(a, b) == IF a >= b THEN a ELSE b
Min(a, b) == IF a <= b THEN a ELSE b

(***************************************************************************)
(* Tax tables                                                              *)
(***************************************************************************)
INSS_BRACKETS ==
    << [limit |-> 151800, rate |-> 75],
       [limit |-> 279388, rate |-> 90],
       [limit |-> 419083, rate |-> 120],
       [limit |-> 815741, rate |-> 140] >>

\* float('inf'): above every amount the model reaches
Inf == 2000000000

\* IR_TABLE with the parcel of the fourth band mistyped (675.49 as 765.49)
IR_TABLE_parcela_typo ==
    << [low |-> 0,      high |-> 242880, rate |-> 0,   parcela |-> 0],
       [low |-> 242881, high |-> 282665, rate |-> 75,  parcela |-> 18216],
       [low |-> 282666, high |-> 375105, rate |-> 150, parcela |-> 39416],
       [low |-> 375106, high |-> 466468, rate |-> 225, parcela |-> 76549],
       [low |-> 466469, high |-> Inf,    rate |-> 275, parcela |-> 90873] >>

\* IR_TABLE with the lower bound of the second band mistyped (2428.81 as 2428.91)
IR_TABLE_gap ==
    << [low |-> 0,      high |-> 242880, rate |-> 0,   parcela |-> 0],
       [low |-> 242891, high |-> 282665, rate |-> 75,  parcela |-> 18216],
       [low |-> 282666, high |-> 375105, rate |-> 150, parcela |-> 39416],
       [low |-> 375106, high |-> 466468, rate |-> 225, parcela |-> 67549],
       [low |-> 466469, high |-> Inf,    rate |-> 275, parcela |-> 90873] >>

IR_TABLE ==
    << [low |-> 0,      high |-> 242880, rate |-> 0,   parcela |-> 0],
       [low |-> 242881, high |-> 282665, rate |-> 75,  parcela |-> 18216],
       [low |-> 282666, high |-> 375105, rate |-> 150, parcela |-> 39416],
       [low |-> 375106, high |-> 466468, rate |-> 225, parcela |-> 67549],
       [low |-> 466469, high |-> Inf,    rate |-> 275, parcela |-> 90873] >>

DEPENDENT_DEDUCTION == 18959

\* load_config's defaults, thousandths
CBS_DEFAULT == 120
IBS_DEFAULT == 80

(***************************************************************************)
(* round(x, 2) of x = n thousandths of a cent, n >= 0, in cents            *)
(***************************************************************************)
Round2(n, up) ==
    LET q == n \div 1000
        r == n % 1000
    IN  IF r > 500 THEN q + 1
        ELSE IF r < 500 THEN q
        ELSE IF up THEN q + 1 ELSE q

(***************************************************************************)
(* calc_inss: the loop over INSS_BRACKETS from bracket i on, with the      *)
(* running total, the floor prev and the breakdown so far                  *)
(***************************************************************************)
RECURSIVE inss_loop(_, _, _, _, _, _)
inss_loop(i, salary, total, prev, details, up) ==
    IF i > Len(INSS_BRACKETS) THEN [total |-> total, details |-> details]
    ELSE LET limit == INSS_BRACKETS[i].limit
             rate == INSS_BRACKETS[i].rate
         IN  IF salary > prev
             THEN LET taxable == Min(limit - prev, Max(0, salary - prev))
                      amount == Round2(taxable * rate, up)
                  IN  inss_loop(i + 1, salary, total + amount, limit,
                                Append(details,
                                       [from |-> prev, to |-> limit, rate |-> rate,
                                        taxable |-> taxable, amount |-> amount]),
                                up)
             ELSE [total |-> total, details |-> details]

\* round(x, 2) replaced by a truncation to the cent
Trunc2(n) == n \div 1000

\* calc_inss truncating each bracket's amount instead of rounding it
RECURSIVE inss_loop_trunc(_, _, _, _, _)
inss_loop_trunc(i, salary, total, prev, details) ==
    IF i > Len(INSS_BRACKETS) THEN [total |-> total, details |-> details]
    ELSE LET limit == INSS_BRACKETS[i].limit
             rate == INSS_BRACKETS[i].rate
         IN  IF salary > prev
             THEN LET taxable == Min(limit - prev, Max(0, salary - prev))
                      amount == Trunc2(taxable * rate)
                  IN  inss_loop_trunc(i + 1, salary, total + amount, limit,
                                      Append(details,
                                             [from |-> prev, to |-> limit, rate |-> rate,
                                              taxable |-> taxable, amount |-> amount]))
             ELSE [total |-> total, details |-> details]

calc_inss_trunc(salary, up) ==
    LET r == inss_loop_trunc(1, salary, 0, 0, <<>>)
    IN  [total |-> Round2(r.total * 1000, up), details |-> r.details]

\* calc_inss entering a bracket when salary >= prev instead of salary > prev
RECURSIVE inss_loop_geq(_, _, _, _, _, _)
inss_loop_geq(i, salary, total, prev, details, up) ==
    IF i > Len(INSS_BRACKETS) THEN [total |-> total, details |-> details]
    ELSE LET limit == INSS_BRACKETS[i].limit
             rate == INSS_BRACKETS[i].rate
         IN  IF salary >= prev
             THEN LET taxable == Min(limit - prev, Max(0, salary - prev))
                      amount == Round2(taxable * rate, up)
                  IN  inss_loop_geq(i + 1, salary, total + amount, limit,
                                    Append(details,
                                           [from |-> prev, to |-> limit, rate |-> rate,
                                            taxable |-> taxable, amount |-> amount]),
                                    up)
             ELSE [total |-> total, details |-> details]

calc_inss_geq(salary, up) ==
    LET r == inss_loop_geq(1, salary, 0, 0, <<>>, up)
    IN  [total |-> Round2(r.total * 1000, up), details |-> r.details]

\* calc_inss without the cap of a bracket's slice at limit - prev
RECURSIVE inss_loop_no_cap(_, _, _, _, _, _)
inss_loop_no_cap(i, salary, total, prev, details, up) ==
    IF i > Len(INSS_BRACKETS) THEN [total |-> total, details |-> details]
    ELSE LET limit == INSS_BRACKETS[i].limit
             rate == INSS_BRACKETS[i].rate
         IN  IF salary > prev
             THEN LET taxable == Max(0, salary - prev)
                      amount == Round2(taxable * rate, up)
                  IN  inss_loop_no_cap(i + 1, salary, total + amount, limit,
                                       Append(details,
                                              [from |-> prev, to |-> limit, rate |-> rate,
                                               taxable |-> taxable, amount |-> amount]),
                                       up)
             ELSE [total |-> total, details |-> details]

calc_inss_no_cap(salary, up) ==
    LET r == inss_loop_no_cap(1, salary, 0, 0, <<>>, up)
    IN  [total |-> Round2(r.total * 1000, up), details |-> r.details]

RECURSIVE SumOfProducts(_)
SumOfProducts(details) ==
    IF details = <<>> THEN 0
    ELSE details[1].taxable * details[1].rate + SumOfProducts(Tail(details))

\* calc_inss rounding the total once, at the end, instead of per bracket
calc_inss_round_once(salary, up) ==
    LET r == inss_loop(1, salary, 0, 0, <<>>, up)
    IN  [total |-> Round2(SumOfProducts(r.details), up), details |-> r.details]

calc_inss(salary, up) ==
    LET r == inss_loop(1, salary, 0, 0, <<>>, up)
    IN  [total |-> Round2(r.total * 1000, up), details |-> r.details]

(***************************************************************************)
(* calc_irrf: the loop over the band table from row i on.  exit tells the  *)
(* return statement taken: the one in the loop or the one after it.        *)
(***************************************************************************)
RECURSIVE irrf_loop(_, _, _, _)
irrf_loop(i, table, base, up) ==
    IF i > Len(table)
    THEN [ir |-> 0, rate |-> 0, parcela |-> 0, base |-> base, exit |-> "after_loop"]
    ELSE LET row == table[i]
         IN  IF row.low <= base /\ base <= row.high
             THEN [ir |-> Round2(Max(base * row.rate - row.parcela * 1000, 0), up),
                   rate |-> row.rate, parcela |-> row.parcela, base |-> base,
                   exit |-> "in_loop"]
             ELSE irrf_loop(i + 1, table, base, up)

\* calc_irrf without the floor of the base at zero
calc_irrf_no_floor(table, salary, inss, other_deductions, dependents, up) ==
    LET base0 == salary - inss - other_deductions - dependents * DEPENDENT_DEDUCTION
        base == Round2(base0 * 1000, up)
    IN  irrf_loop(1, table, base, up)

calc_irrf(table, salary, inss, other_deductions, dependents, up) ==
    LET base0 == salary - inss - other_deductions - dependents * DEPENDENT_DEDUCTION
        base == Round2(Max(base0, 0) * 1000, up)
    IN  irrf_loop(1, table, base, up)

(***************************************************************************)
(* generate_holerite_pdf: the figures of the payslip (lines 137-145).      *)
(* up_inss, up_ir and up_fgts are the directions of the roundings in       *)
(* calc_inss, in calc_irrf and of the FGTS.                                *)
(***************************************************************************)
generate_holerite_pdf(e, table, up_inss, up_ir, up_fgts) ==
    LET salary == e.salary_bruto
        other == e.other_deductions
        dependents == e.dependents
        benefits == e.benefits
        total_prov == Round2((salary + benefits) * 1000, up_fgts)
        i == calc_inss(salary, up_inss)
        r == calc_irrf(table, salary, i.total, other, dependents, up_ir)
        fgts == Round2(salary * 80, up_fgts)
        liquido == Round2((total_prov - (i.total + r.ir + other)) * 1000, up_fgts)
    IN  [salary |-> salary, other |-> other, dependents |-> dependents,
         benefits |-> benefits, total_prov |-> total_prov,
         inss_total |-> i.total, inss_details |-> i.details,
         ir_total |-> r.ir, ir_rate |-> r.rate, ir_parcela |-> r.parcela,
         base_ir |-> r.base, ir_exit |-> r.exit,
         fgts |-> fgts, liquido |-> liquido]

(***************************************************************************)
(* Bounds of the inputs                                                    *)
(***************************************************************************)
MaxSalary == 900000
GridStep == 25000
Window == 50
BandWindow == 3
MaxDependents == 1
OtherStep == 10000
WithheldStep == 30000

Abs(x) == IF x >= 0 THEN x ELSE 0 - x

Others == {0, OtherStep}
Benefits == {0}
Withhelds == {0, WithheldStep}

\* the salaries k * GridStep up to MaxSalary
Grid == {k * GridStep : k \in 0..(MaxSalary \div GridStep)}

\* the amounts from c - BandWindow to c + w, none negative, none above MaxSalary
Around(c, w) == {s \in (c - BandWindow)..(c + w) : s >= 0 /\ s <= MaxSalary}

\* the salaries from just below to Window above 0 and each INSS limit
NearLimit ==
    Around(0, Window) \cup
    UNION {Around(INSS_BRACKETS[k].limit, Window) : k \in 1..Len(INSS_BRACKETS)}

\* the salary s with s - calc_inss(s) = net, to within a cent: s is the
\* fixed point of s = net + calc_inss(s), a contraction (every rate < 1)
RECURSIVE GrossOf(_, _, _)
GrossOf(net, s, n) ==
    IF n = 0 THEN s ELSE GrossOf(net, net + calc_inss(s, FALSE).total, n - 1)

\* the salaries whose payslip base is within BandWindow of the lower bound
\* of a band, for each choice of the other deductions and the dependents
NearBand ==
    UNION {Around(GrossOf(IR_TABLE[k].low + o + d * DEPENDENT_DEDUCTION, 0, 12),
                  BandWindow) :
           o \in Others, d \in 0..MaxDependents, k \in 1..Len(IR_TABLE)}

\* the salaries of the two worked scenarios
Scenarios == {300000, 242880}

\* the amounts within BandWindow of the lower bound of each band
NearLow == UNION {Around(IR_TABLE[k].low, BandWindow) : k \in 1..Len(IR_TABLE)}

Salaries == Grid \cup NearLimit \cup NearBand \cup NearLow \cup Scenarios

Employees ==
    [salary_bruto : Salaries, dependents : 0..MaxDependents,
     benefits : Benefits, other_deductions : Others]

(***************************************************************************)
(* The calculators applied to one employee row                             *)
(***************************************************************************)
InitCalc ==
    /\ emp \in Employees
    /\ holerite = NoResult
    /\ irrf_call = NoResult
    /\ ir_table = IR_TABLE
    /\ employees = <<>>
    /\ sales = <<>>
    /\ costs = <<>>
    /\ CBS_RATE = CBS_DEFAULT
    /\ IBS_RATE = IBS_DEFAULT
    /\ dre_dict = NoResult
    /\ pay_sel = 0
    /\ last_holerite = NoResult

\* the payroll form's submit: the payslip of emp (line 249)
GenerateHolerite ==
    /\ \E up_inss \in BOOLEAN, up_ir \in BOOLEAN, up_fgts \in BOOLEAN :
           holerite' = generate_holerite_pdf(emp, ir_table, up_inss, up_ir, up_fgts)
    /\ UNCHANGED <<emp, irrf_call, ir_table, appVars>>

\* calc_irrf called with an arbitrary withheld amount (lines 111-118)
CallCalcIrrf ==
    /\ \E inss \in Withhelds, up \in BOOLEAN :
           irrf_call' = [salary |-> emp.salary_bruto, inss |-> inss,
                         other_deductions |-> emp.other_deductions,
                         dependents |-> emp.dependents,
                         result |-> calc_irrf(ir_table, emp.salary_bruto, inss,
                                              emp.other_deductions, emp.dependents, up)]
    /\ UNCHANGED <<emp, holerite, ir_table, appVars>>

\* payslips
NextFolha == GenerateHolerite

SpecFolha == InitCalc /\ [][NextFolha]_vars

\* calls of calc_irrf
NextIrrf == CallCalcIrrf

SpecIrrf == InitCalc /\ [][NextIrrf]_vars

(***************************************************************************)
(* calc_irrf over a band table that was edited badly: IR_TABLE is a        *)
(* literal of the source, and a row left out of it leaves a gap            *)
(***************************************************************************)
WithoutRow(table, k) == SubSeq(table, 1, k - 1) \o SubSeq(table, k + 1, Len(table))

BandTables == {IR_TABLE} \cup {WithoutRow(IR_TABLE, k) : k \in 1..Len(IR_TABLE)}

InitBands ==
    /\ emp \in Employees
    /\ holerite = NoResult
    /\ irrf_call = NoResult
    /\ ir_table \in BandTables
    /\ employees = <<>>
    /\ sales = <<>>
    /\ costs = <<>>
    /\ CBS_RATE = CBS_DEFAULT
    /\ IBS_RATE = IBS_DEFAULT
    /\ dre_dict = NoResult
    /\ pay_sel = 0
    /\ last_holerite = NoResult

SpecBands == InitBands /\ [][NextIrrf]_vars

(***************************************************************************)
(* The DRE tab (lines 329-358).  df_sales and df_costs are the rows of the *)
(* tables sales and costs, emps the rows of employees.  The kind "Serviço" *)
(* is written "Servico".                                                   *)
(***************************************************************************)
\* df[df['kind'] == kind][column].sum(), the rows as <<kind, value>> records
RECURSIVE soma_por_tipo_all(_, _)
soma_por_tipo_all(df, kind) ==
    IF df = <<>> THEN 0 ELSE df[1].value + soma_por_tipo_all(Tail(df), kind)

RECURSIVE soma_por_tipo(_, _)
soma_por_tipo(df, kind) ==
    IF df = <<>> THEN 0
    ELSE (IF df[1].kind = kind THEN df[1].value ELSE 0) + soma_por_tipo(Tail(df), kind)

\* SUM(salary_bruto) alone, the benefits forgotten
RECURSIVE folha_total_no_benefits(_)
folha_total_no_benefits(emps) ==
    IF emps = <<>> THEN 0
    ELSE emps[1].salary_bruto + folha_total_no_benefits(Tail(emps))

\* SELECT IFNULL(SUM(salary_bruto + IFNULL(benefits, 0)), 0) FROM employees
RECURSIVE folha_total(_)
folha_total(emps) ==
    IF emps = <<>> THEN 0
    ELSE emps[1].salary_bruto + emps[1].benefits + folha_total(Tail(emps))

\* the DRE with the payroll left out of the operating expenses
dre_no_folha(df_sales, df_costs, emps, cbs_rate, ibs_rate, up_cbs, up_ibs) ==
    LET receita_produtos == IF df_sales # <<>> THEN soma_por_tipo(df_sales, "Produto") ELSE 0
        receita_servicos == IF df_sales # <<>> THEN soma_por_tipo(df_sales, "Servico") ELSE 0
        receita_bruta == receita_produtos + receita_servicos
        cbs == Round2(receita_bruta * cbs_rate, up_cbs)
        ibs == Round2(receita_bruta * ibs_rate, up_ibs)
        deducoes == cbs + ibs
        cpv == IF df_costs # <<>> THEN soma_por_tipo(df_costs, "Direct") ELSE 0
        despesas == IF df_costs # <<>> THEN soma_por_tipo(df_costs, "Indirect") ELSE 0
        receita_liquida == receita_bruta - deducoes
        lucro_bruto == receita_liquida - cpv
        resultado_operacional == lucro_bruto - despesas
    IN  [receita_bruta |-> receita_bruta, cbs |-> cbs, ibs |-> ibs,
         receita_liquida |-> receita_liquida, cpv |-> cpv,
         lucro_bruto |-> lucro_bruto, despesas_operacionais |-> despesas,
         resultado_operacional |-> resultado_operacional,
         lucro_liquido |-> resultado_operacional]

\* dre_dict, its items named after the variables they are computed in
dre(df_sales, df_costs, emps, cbs_rate, ibs_rate, up_cbs, up_ibs) ==
    LET receita_produtos == IF df_sales # <<>> THEN soma_por_tipo(df_sales, "Produto") ELSE 0
        receita_servicos == IF df_sales # <<>> THEN soma_por_tipo(df_sales, "Servico") ELSE 0
        receita_bruta == receita_produtos + receita_servicos
        cbs == Round2(receita_bruta * cbs_rate, up_cbs)
        ibs == Round2(receita_bruta * ibs_rate, up_ibs)
        deducoes == cbs + ibs
        cpv == IF df_costs # <<>> THEN soma_por_tipo(df_costs, "Direct") ELSE 0
        despesas == IF df_costs # <<>> THEN soma_por_tipo(df_costs, "Indirect") ELSE 0
        folha == folha_total(emps)
        receita_liquida == receita_bruta - deducoes
        lucro_bruto == receita_liquida - cpv
        resultado_operacional == lucro_bruto - (despesas + folha)
        antes_ir == resultado_operacional
        ir_csll == 0
        lucro_liquido == antes_ir - ir_csll
    IN  [receita_bruta |-> receita_bruta, cbs |-> cbs, ibs |-> ibs,
         receita_liquida |-> receita_liquida, cpv |-> cpv,
         lucro_bruto |-> lucro_bruto, despesas_operacionais |-> despesas + folha,
         resultado_operacional |-> resultado_operacional,
         lucro_liquido |-> lucro_liquido]

(***************************************************************************)
(* The application.  Every interaction runs the script from top to bottom: *)
(* the handler of the widget that was used changes its table, and the DRE  *)
(* tab, further down the script, computes dre_dict from the tables as they *)
(* are then.                                                               *)
(***************************************************************************)
MaxEmployees == 2
MaxSales == 2
MaxCosts == 2
MaxQty == 2
ProductPrice == 1250
ServicePrice == 9999
CostAmount == 4000
AppSalary == 151800
BenefitStep == 5000
RateStep == 5

CbsRates == {0, CBS_DEFAULT, CBS_DEFAULT + RateStep}
IbsRates == {IBS_DEFAULT, IBS_DEFAULT + RateStep}

\* the DRE tab of the run that ends in the tables es, ss, cs and the rates
RenderDRE(es, ss, cs, cbs_rate, ibs_rate) ==
    \E up_cbs \in BOOLEAN, up_ibs \in BOOLEAN :
        dre_dict' = dre(ss, cs, es, cbs_rate, ibs_rate, up_cbs, up_ibs)

\* the payroll tab's selectbox (lines 225-234) over the employees es, its
\* value in the run before sel: with no employee it is not drawn; drawn for
\* the first time it takes ids[0], the first row; afterwards it keeps its value
PaySel(es, sel) ==
    IF es = <<>> THEN 0
    ELSE IF sel = 0 THEN 1 ELSE sel

\* the first run of the script: empty tables, the default rates
Init ==
    /\ emp = NoResult
    /\ holerite = NoResult
    /\ irrf_call = NoResult
    /\ ir_table = IR_TABLE
    /\ employees = <<>>
    /\ sales = <<>>
    /\ costs = <<>>
    /\ CBS_RATE = CBS_DEFAULT
    /\ IBS_RATE = IBS_DEFAULT
    /\ dre_dict = dre(<<>>, <<>>, <<>>, CBS_DEFAULT, IBS_DEFAULT, FALSE, FALSE)
    /\ pay_sel = 0
    /\ last_holerite = NoResult

\* "Salvar Funcionário" (lines 203-207)
SaveEmployee ==
    /\ Len(employees) < MaxEmployees
    /\ \E benefits \in {0, BenefitStep} :
           employees' = Append(employees,
                               [salary_bruto |-> AppSalary, dependents |-> 0,
                                benefits |-> benefits, other_deductions |-> 0])
    /\ pay_sel' = PaySel(employees', pay_sel)
    /\ RenderDRE(employees', sales, costs, CBS_RATE, IBS_RATE)
    /\ UNCHANGED <<calcVars, sales, costs, CBS_RATE, IBS_RATE, last_holerite>>

\* "Registrar Venda Produto" (lines 276-279): total = qty * price
RegisterVendaProduto ==
    /\ Len(sales) < MaxSales
    /\ \E qty \in 1..MaxQty :
           sales' = Append(sales, [kind |-> "Produto", value |-> qty * ProductPrice])
    /\ RenderDRE(employees, sales', costs, CBS_RATE, IBS_RATE)
    /\ UNCHANGED <<calcVars, employees, costs, CBS_RATE, IBS_RATE, pay_sel, last_holerite>>

\* "Registrar Venda Serviço" (lines 280-284): total = price
RegisterVendaServico ==
    /\ Len(sales) < MaxSales
    /\ sales' = Append(sales, [kind |-> "Servico", value |-> ServicePrice])
    /\ RenderDRE(employees, sales', costs, CBS_RATE, IBS_RATE)
    /\ UNCHANGED <<calcVars, employees, costs, CBS_RATE, IBS_RATE, pay_sel, last_holerite>>

\* "Salvar Custo" (lines 288-294)
SaveCost ==
    /\ Len(costs) < MaxCosts
    /\ \E ckind \in {"Direct", "Indirect"} :
           costs' = Append(costs, [kind |-> ckind, value |-> CostAmount])
    /\ RenderDRE(employees, sales, costs', CBS_RATE, IBS_RATE)
    /\ UNCHANGED <<calcVars, employees, sales, CBS_RATE, IBS_RATE, pay_sel, last_holerite>>

\* the sidebar's CBS input (lines 43 and 51)
SetCBS ==
    /\ \E r \in CbsRates : r # CBS_RATE /\ CBS_RATE' = r
    /\ RenderDRE(employees, sales, costs, CBS_RATE', IBS_RATE)
    /\ UNCHANGED <<calcVars, employees, sales, costs, IBS_RATE, pay_sel, last_holerite>>

\* the sidebar's IBS input (lines 44 and 52)
SetIBS ==
    /\ \E r \in IbsRates : r # IBS_RATE /\ IBS_RATE' = r
    /\ RenderDRE(employees, sales, costs, CBS_RATE, IBS_RATE')
    /\ UNCHANGED <<calcVars, employees, sales, costs, CBS_RATE, pay_sel, last_holerite>>

Next ==
    \/ SaveEmployee
    \/ RegisterVendaProduto
    \/ RegisterVendaServico
    \/ SaveCost
    \/ SetCBS
    \/ SetIBS

Spec == Init /\ [][Next]_vars

(***************************************************************************)
(* The payroll tab (lines 219-254).  A payslip is the PDF's content: id    *)
(* stands for the name, CPF, role and admission of its header (lines       *)
(* 132-133), figures for the rows of its table.                            *)
(***************************************************************************)
\* the amounts entered as "Outras deduções" in the payroll form (line 242)
PayOthers == {0, OtherStep, 2 * OtherStep}

\* another employee is chosen in the selectbox (line 234): the script runs
\* again, the form is not submitted, session_state keeps last_holerite
SelectEmployee ==
    /\ employees # <<>>
    /\ \E id \in 1..Len(employees) : id # pay_sel /\ pay_sel' = id
    /\ RenderDRE(employees, sales, costs, CBS_RATE, IBS_RATE)
    /\ UNCHANGED <<calcVars, employees, sales, costs, CBS_RATE, IBS_RATE,
                   last_holerite>>

\* "Calcular & Gerar Holerite" (lines 243-251): the UPDATE of the selected
\* row, its re-read, and the payslip stored in session_state
SubmitPayroll ==
    /\ employees # <<>>
    /\ \E other \in PayOthers :
           employees' = [employees EXCEPT ![pay_sel].other_deductions = other,
                                          ![pay_sel].benefits = employees[pay_sel].benefits]
    /\ \E up_inss \in BOOLEAN, up_ir \in BOOLEAN, up_fgts \in BOOLEAN :
           last_holerite' =
               [id |-> pay_sel,
                figures |-> generate_holerite_pdf(employees'[pay_sel], ir_table,
                                                  up_inss, up_ir, up_fgts)]
    /\ RenderDRE(employees', sales, costs, CBS_RATE, IBS_RATE)
    /\ UNCHANGED <<calcVars, sales, costs, CBS_RATE, IBS_RATE, pay_sel>>

\* the interactions with the employees form and the payroll tab
NextPayroll ==
    \/ SaveEmployee
    \/ SelectEmployee
    \/ SubmitPayroll

SpecPayroll == Init /\ [][NextPayroll]_vars

(***************************************************************************)
(* Properties of the calculators                                           *)
(***************************************************************************)
Computed(x) == "none" \notin DOMAIN x

RECURSIVE SumAmounts(_)
SumAmounts(details) ==
    IF details = <<>> THEN 0
    ELSE details[1].amount + SumAmounts(Tail(details))

\* c is x thousandths of a cent rounded to the nearest cent
NearestCent(c, x) == Abs(1000 * c - x) <= 500

\* C1: the INSS total of a payslip is the sum of the amounts of its
\* breakdown, each amount is its bracket's taxable * rate rounded to the
\* cent, and no entry has a negative taxable
C1_TotalIsSumOfBreakdown ==
    Computed(holerite) =>
        /\ holerite.inss_total = SumAmounts(holerite.inss_details)
        /\ \A k \in 1..Len(holerite.inss_details) :
               LET d == holerite.inss_details[k]
               IN  /\ d.taxable >= 0
                   /\ NearestCent(d.amount, d.taxable * d.rate)

\* a payslip of three brackets or more whose total is not the one a single
\* rounding of the exact sum gives
C1_Witness ==
    /\ Computed(holerite)
    /\ Len(holerite.inss_details) >= 3
    /\ ~NearestCent(holerite.inss_total, SumOfProducts(holerite.inss_details))

\* calc_inss's total for every salary of the model and both directions
C2_InssOf == [s \in Salaries |-> [u \in BOOLEAN |-> calc_inss(s, u).total]]

\* C2: a lower salary, with the same other deductions and dependents, has
\* no higher INSS total, no higher income-tax base and no higher IRRF than
\* the payslip's; with the same base its IRRF is one the payslip can show
C2_Monotone ==
    Computed(holerite) =>
        \A s1 \in Salaries : s1 < holerite.salary =>
            \A u1 \in BOOLEAN :
                LET i1 == C2_InssOf[s1][u1]
                    b1 == calc_irrf(IR_TABLE, s1, i1, holerite.other,
                                    holerite.dependents, FALSE).base
                IN  /\ i1 <= holerite.inss_total
                    /\ b1 <= holerite.base_ir
                    /\ b1 < holerite.base_ir =>
                           \A u2 \in BOOLEAN :
                               irrf_loop(1, IR_TABLE, b1, u2).ir <= holerite.ir_total
                    /\ b1 = holerite.base_ir =>
                           \E u2 \in BOOLEAN :
                               irrf_loop(1, IR_TABLE, b1, u2).ir = holerite.ir_total

\* a payslip and a lower salary that lies in a lower INSS bracket and in a
\* lower income-tax band, with a strictly lower INSS and IRRF
C2_Witness ==
    /\ Computed(holerite)
    /\ \E s1 \in Salaries :
           LET i1 == calc_inss(s1, FALSE)
               r1 == calc_irrf(IR_TABLE, s1, i1.total, holerite.other,
                               holerite.dependents, FALSE)
           IN  /\ s1 < holerite.salary
               /\ Len(i1.details) < Len(holerite.inss_details)
               /\ r1.rate > 0 /\ r1.rate < holerite.ir_rate
               /\ i1.total < holerite.inss_total
               /\ r1.ir < holerite.ir_total

\* the rows of IR_TABLE whose closed interval holds base
MatchingRows(base) ==
    {k \in 1..Len(IR_TABLE) : IR_TABLE[k].low <= base /\ base <= IR_TABLE[k].high}

\* C3: every base calc_irrf computes is >= 0 and lies in exactly one row
\* of IR_TABLE, and calc_irrf returns from inside its loop
C3_ExactlyOneBand ==
    Computed(irrf_call) =>
        /\ irrf_call.result.base >= 0
        /\ Cardinality(MatchingRows(irrf_call.result.base)) = 1
        /\ irrf_call.result.exit = "in_loop"

\* calc_irrf has computed a base that is the lower bound of a band above
\* the first: one cent above the upper bound of the band before
C3_Witness ==
    /\ Computed(irrf_call)
    /\ \E k \in 2..Len(IR_TABLE) :
           /\ irrf_call.result.base = IR_TABLE[k].low
           /\ irrf_call.result.base = IR_TABLE[k - 1].high + 1
           /\ irrf_call.result.rate = IR_TABLE[k].rate

\* C4: when no row of the band table holds the base, calc_irrf does not
\* take its return after the loop, the one that gives a tax of zero
C4_MismatchIsReported ==
    (/\ Computed(irrf_call)
     /\ \A k \in 1..Len(ir_table) :
            ~(ir_table[k].low <= irrf_call.result.base
              /\ irrf_call.result.base <= ir_table[k].high))
    => ~(irrf_call.result.exit = "after_loop" /\ irrf_call.result.ir = 0)

\* C5 as stated: salary 3000.00 gives the amounts 113.85, 114.82 and 24.73
\* and the total 253.40
C5_Original ==
    (Computed(holerite) /\ holerite.salary = 300000) =>
        /\ Len(holerite.inss_details) = 3
        /\ holerite.inss_details[1].amount = 11385
        /\ holerite.inss_details[2].amount = 11482
        /\ holerite.inss_details[3].amount = 2473
        /\ holerite.inss_total = 25340

\* C5 as amended: salary 3000.00 gives exactly three entries, 0-1518 at
\* 7.5 % with 113.85, 1518-2793.88 at 9 % with 114.83 and 2793.88-4190.83
\* at 12 % on a taxable of 206.12 with 24.73, and the total 253.41
C5_Scenario3000 ==
    (Computed(holerite) /\ holerite.salary = 300000) =>
        /\ holerite.inss_details =
               << [from |-> 0, to |-> 151800, rate |-> 75,
                   taxable |-> 151800, amount |-> 11385],
                  [from |-> 151800, to |-> 279388, rate |-> 90,
                   taxable |-> 127588, amount |-> 11483],
                  [from |-> 279388, to |-> 419083, rate |-> 120,
                   taxable |-> 20612, amount |-> 2473] >>
        /\ holerite.inss_total = 25341

\* the payslip of a salary of 3000.00
C5_Witness == Computed(holerite) /\ holerite.salary = 300000

\* the limit of the bracket before bracket k, 0 before the first
PrevLimit(k) == IF k = 1 THEN 0 ELSE INSS_BRACKETS[k - 1].limit

\* C6: a salary equal to the limit of bracket k gives k entries, the last
\* one bracket k's with taxable = limit - previous limit; bracket k + 1 has
\* no entry
C6_BracketBoundary ==
    Computed(holerite) =>
        \A k \in 1..Len(INSS_BRACKETS) :
            holerite.salary = INSS_BRACKETS[k].limit =>
                /\ Len(holerite.inss_details) = k
                /\ holerite.inss_details[k].to = INSS_BRACKETS[k].limit
                /\ holerite.inss_details[k].from = PrevLimit(k)
                /\ holerite.inss_details[k].taxable =
                       INSS_BRACKETS[k].limit - PrevLimit(k)

\* the payslip of a salary equal to the limit of a bracket that has a next
C6_Witness ==
    /\ Computed(holerite)
    /\ \E k \in 1..(Len(INSS_BRACKETS) - 1) :
           /\ holerite.salary = INSS_BRACKETS[k].limit
           /\ Len(holerite.inss_details) = k

\* the row of IR_TABLE that holds base
BandOf(base) == IR_TABLE[CHOOSE k \in 1..Len(IR_TABLE) : k \in MatchingRows(base)]

\* C7: calc_irrf returns base = max(0, salary - withheld - other deductions
\* - dependents * 189.59) and, with the rate and the parcel of the band that
\* holds base, tax = max(0, base * rate - parcel rounded to the cent), which
\* is never negative; salary 2428.80 with nothing withheld or deducted and
\* no dependents gives base 2428.80, rate 0 and tax 0.00
C7_IrrfFormula ==
    Computed(irrf_call) =>
        LET c == irrf_call
            base == Max(0, c.salary - c.inss - c.other_deductions
                           - c.dependents * 18959)
            band == BandOf(base)
            x == base * band.rate - band.parcela * 1000
        IN  /\ c.result.base = base
            /\ c.result.rate = band.rate
            /\ c.result.parcela = band.parcela
            /\ c.result.ir >= 0
            /\ \E u \in BOOLEAN : c.result.ir = Max(0, Round2(x, u))
            /\ (c.salary = 242880 /\ c.inss = 0 /\ c.other_deductions = 0
                /\ c.dependents = 0) =>
                   (c.result.base = 242880 /\ c.result.rate = 0 /\ c.result.ir = 0)

\* a call with a withheld amount, other deductions and a dependent that
\* yields a positive tax
C7_Witness ==
    /\ Computed(irrf_call)
    /\ irrf_call.inss > 0 /\ irrf_call.other_deductions > 0
    /\ irrf_call.dependents > 0
    /\ irrf_call.result.ir > 0

(***************************************************************************)
(* Properties of the DRE                                                   *)
(***************************************************************************)
\* the sum of the values of the rows of df with an index in I
RECURSIVE SumIdx(_, _)
SumIdx(df, I) ==
    IF I = {} THEN 0
    ELSE LET i == CHOOSE j \in I : TRUE
         IN  df[i].value + SumIdx(df, I \ {i})

\* the indices of the rows of df of a kind
KindIdx(df, kind) == {i \in 1..Len(df) : df[i].kind = kind}

\* the payroll total: gross salary plus benefits over the employees in I
RECURSIVE Payroll(_)
Payroll(I) ==
    IF I = {} THEN 0
    ELSE LET i == CHOOSE j \in I : TRUE
         IN  employees[i].salary_bruto + employees[i].benefits + Payroll(I \ {i})

\* C8: the DRE follows the chain: CBS and IBS are the gross revenue times
\* their own rate, each rounded to the cent; net revenue = gross revenue -
\* (CBS + IBS); cost of goods = the Direct costs; gross profit = net revenue
\* - cost of goods; operating expense = the Indirect costs + the payroll
\* total; operating result = gross profit - operating expense; net result
\* = operating result
C8_DreChain ==
    LET d == dre_dict
    IN  /\ NearestCent(d.cbs, d.receita_bruta * CBS_RATE)
        /\ NearestCent(d.ibs, d.receita_bruta * IBS_RATE)
        /\ d.receita_liquida = d.receita_bruta - (d.cbs + d.ibs)
        /\ d.cpv = SumIdx(costs, KindIdx(costs, "Direct"))
        /\ d.lucro_bruto = d.receita_liquida - d.cpv
        /\ d.despesas_operacionais =
               SumIdx(costs, KindIdx(costs, "Indirect"))
               + Payroll(1..Len(employees))
        /\ d.resultado_operacional = d.lucro_bruto - d.despesas_operacionais
        /\ d.lucro_liquido = d.resultado_operacional

\* a DRE over sales, a Direct and an Indirect cost and an employee, with a
\* CBS that is not the rounding of CBS + IBS minus the IBS
C8_Witness ==
    /\ sales # <<>> /\ employees # <<>>
    /\ KindIdx(costs, "Direct") # {} /\ KindIdx(costs, "Indirect") # {}
    /\ dre_dict.cbs > 0 /\ dre_dict.ibs > 0
    /\ ~NearestCent(dre_dict.cbs + dre_dict.ibs,
                    dre_dict.receita_bruta * (CBS_RATE + IBS_RATE))

\* the permutations of 1..n
Perms(n) == {p \in [1..n -> 1..n] : \A i, j \in 1..n : i # j => p[i] # p[j]}

\* the rows of df in the order p
Permuted(df, p) == [i \in 1..Len(df) |-> df[p[i]]]

\* C9: the gross revenue is the sum of the totals of the product sales
\* plus the sum of the totals of the service sales, and the DRE tab gives
\* the same gross revenue for the sales taken in any other order
C9_GrossRevenue ==
    /\ dre_dict.receita_bruta =
           SumIdx(sales, KindIdx(sales, "Produto"))
           + SumIdx(sales, KindIdx(sales, "Servico"))
    /\ \A p \in Perms(Len(sales)) :
           dre(Permuted(sales, p), costs, employees, CBS_RATE, IBS_RATE,
               FALSE, FALSE).receita_bruta = dre_dict.receita_bruta

\* a DRE over a product sale followed by a service sale
C9_Witness ==
    /\ Len(sales) >= 2
    /\ sales[1].kind = "Produto" /\ sales[2].kind = "Servico"
    /\ sales[1].value # sales[2].value
    /\ dre_dict.receita_bruta = sales[1].value + sales[2].value

\* C10: with no sale and no cost, revenue, CBS, IBS, net revenue, cost of
\* goods and gross profit are 0 and the net result is minus the payroll
\* total; with no employee either, every item is 0
C10_EmptyCollections ==
    (sales = <<>> /\ costs = <<>>) =>
        LET d == dre_dict
        IN  /\ d.receita_bruta = 0 /\ d.cbs = 0 /\ d.ibs = 0
            /\ d.receita_liquida = 0 /\ d.cpv = 0 /\ d.lucro_bruto = 0
            /\ d.lucro_liquido = 0 - Payroll(1..Len(employees))
            /\ employees = <<>> =>
                   /\ d.despesas_operacionais = 0
                   /\ d.resultado_operacional = 0
                   /\ d.lucro_liquido = 0

\* a DRE over no sale and no cost and an employee with benefits
C10_Witness ==
    /\ sales = <<>> /\ costs = <<>>
    /\ employees # <<>> /\ employees[1].benefits > 0
    /\ dre_dict.lucro_liquido < 0

\* C12: the INSS total never exceeds 951.63, and a salary at or above the
\* last limit, 8157.41, gives exactly that total, from exactly four entries
\* of 113.85, 114.83, 167.63 and 555.32
C12_InssCeiling ==
    Computed(holerite) =>
        /\ holerite.inss_total <= 95163
        /\ holerite.salary >= 815741 =>
               /\ holerite.inss_total = 95163
               /\ Len(holerite.inss_details) = 4
               /\ holerite.inss_details[1].amount = 11385
               /\ holerite.inss_details[2].amount = 11483
               /\ holerite.inss_details[3].amount = 16763
               /\ holerite.inss_details[4].amount = 55532

\* the payslip of a salary above the last limit
C12_Witness ==
    /\ Computed(holerite)
    /\ holerite.salary > INSS_BRACKETS[Len(INSS_BRACKETS)].limit
    /\ holerite.inss_total = 95163

(***************************************************************************)
(* Properties of the payroll tab                                           *)
(***************************************************************************)
\* the download button (lines 252-254): drawn when there is an employee and
\* session_state holds a payslip; file_emp is the selected employee, whose
\* name makes the file name, data the payslip offered
Download ==
    IF employees # <<>> /\ Computed(last_holerite)
    THEN [file_emp |-> pay_sel, data |-> last_holerite]
    ELSE NoResult

\* C11: a payslip offered for download is the selected employee's, computed
\* from that employee's row as it is now
C11_NoStalePayslip ==
    Computed(Download) =>
        /\ Download.data.id = Download.file_emp
        /\ \E up_inss \in BOOLEAN, up_ir \in BOOLEAN, up_fgts \in BOOLEAN :
               Download.data.figures =
                   generate_holerite_pdf(employees[pay_sel], ir_table,
                                         up_inss, up_ir, up_fgts)

====
